---- MODULE Spec2Model ----
(***************************************************************************)
(* A model of the java-runtimes crate: the version parser                  *)
(* (JavaRuntime::extract_version), the path classifier and the probe       *)
(* (JavaRuntime::update / from_executable), the record operations, and     *)
(* the directory walker of the detector module.                            *)
(*                                                                         *)
(* Text is a sequence of one-character strings.  A path is the sequence    *)
(* of its components, an absolute path starting with the component "/".    *)
(***************************************************************************)
EXTENDS Integers, Sequences, FiniteSets, TLC

VARIABLES
    input,      \* the text handed to extract_version
    output,     \* what extract_version returned for it
    ppc,        \* "input" before the call of extract_version, "done" after
    fs,         \* the filesystem: what varies of the tree below "/"
    cwd,        \* the working directory of the process, or NoCwd
    recs,       \* the JavaRuntime values the caller holds, by name
    res,        \* the last call on a record: its arguments and what it returned
    runtimes,   \* the vector of records the detector appends to
    wpc,        \* where the detector is: "idle", "paths" (the loop over the
                \* paths of a call) or "walk" (the loop of gather_java)
    call,       \* the detector call in progress or returned last: its
                \* arguments, the vector when it was made, what it returned
    queue,      \* the paths the call has still to walk
    count,      \* what the gather_java calls of the call returned, summed
    begin_count, \* gather_java's begin_count
    stack,      \* the WalkDir iterator: the directories being read, each
                \* with its depth and the entries not yet yielded
    opened,     \* the entries whose directory the iterator has read
    env         \* the environment variables of the process

parseVars == <<input, output, ppc>>

worldVars == <<fs, cwd>>

recVars == <<recs, res>>

walkVars ==
    <<runtimes, wpc, call, queue, count, begin_count, stack, opened, env>>

vars ==
    <<input, output, ppc, fs, cwd, recs, res, runtimes, wpc, call, queue,
      count, begin_count, stack, opened, env>>

----------------------------------------------------------------------------
(* Generic helpers. *)

Min(S) == CHOOSE x \in S : \A y \in S : x <= y

Max(S) == CHOOSE x \in S : \A y \in S : x >= y

RECURSIVE Flatten(_)
Flatten(ss) == IF ss = <<>> THEN <<>> ELSE Head(ss) \o Flatten(Tail(ss))

IsPrefix(s, t) == Len(s) <= Len(t) /\ SubSeq(t, 1, Len(s)) = s

----------------------------------------------------------------------------
(* The version parser. *)

Quote == "\""

Newline == "\n"

Digits == {"1", "2"}

\* The class [\d._] of VERSION_PATTERN.
TailClass == Digits \cup {".", "_"}

\* extract_version's Err(ErrorKind::NoJavaVersionStringFound): no version
\* (a version is never the empty text).
NoJavaVersionStringFound == <<>>

\* (\d+)\.(\d+)([\d._]+)? matches the whole of t.
IsVersionToken(t) ==
    \E i \in 1..Len(t) : \E j \in (i + 2)..Len(t) :
        /\ \A k \in 1..i : t[k] \in Digits
        /\ t[i + 1] = "."
        /\ \A k \in (i + 2)..j : t[k] \in Digits
        /\ \A k \in (j + 1)..Len(t) : t[k] \in TailClass

\* The position of the quote that closes a token opened by the quote at q,
\* 0 when "((\d+)\.(\d+)([\d._]+)?)" does not match at q.
TokenClose(w, q) ==
    IF q > Len(w) \/ w[q] # Quote THEN 0
    ELSE LET closes == {j \in (q + 1)..Len(w) :
                           /\ w[j] = Quote
                           /\ IsVersionToken(SubSeq(w, q + 1, j - 1))}
         IN IF closes = {} THEN 0 ELSE Min(closes)

\* The opening quotes at which VERSION_PATTERN can match when the match
\* starts at s: the leading .* takes w[s..q-1], which holds no line break
\* (the trailing .* matches the empty text).
PatternMatches(w, s) ==
    {q \in s..Len(w) :
        /\ \A k \in s..(q - 1) : w[k] # Newline
        /\ TokenClose(w, q) # 0}

\* Regex::captures(...).get(1): the match is the leftmost one, and within it
\* the greedy leading .* takes as much as it can.
VERSION_PATTERN(w) ==
    LET starts == {s \in 1..Len(w) : PatternMatches(w, s) # {}}
    IN IF starts = {} THEN NoJavaVersionStringFound
       ELSE LET q == Max(PatternMatches(w, Min(starts)))
            IN SubSeq(w, q + 1, TokenClose(w, q) - 1)

\* format!("\"{}\"", version_string), then the first capture group.
extract_version(version_string) ==
    VERSION_PATTERN(<<Quote>> \o version_string \o <<Quote>>)

----------------------------------------------------------------------------
(* Paths (std::path::Path) and the filesystem. *)

Root == <<"/">>

Jdk == <<"/", "jdk">>

JdkBin == <<"/", "jdk", "bin">>

JdkBinJava == <<"/", "jdk", "bin", "java">>

JdkLnk == <<"/", "jdk", "lnk">>

Opt == <<"/", "opt">>

OptJava == <<"/", "opt", "java">>

\* env::current_dir() fails: no path (the empty path names no directory).
NoCwd == <<>>

\* The error of a path resolution (no resolution yields the empty path).
NotFound == <<>>

\* Option::None, of a file name and of a parent path.
None == "None"

NoParent == <<>>

\* Path::has_root / is_absolute on a Unix host.
has_root(path) == path # <<>> /\ path[1] = "/"

\* Path::join: an absolute argument replaces the receiver.
join(base, path) == IF has_root(path) THEN path ELSE base \o path

\* Path::file_name: None for the root directory (and the empty path).
file_name(path) ==
    IF path = <<>> \/ path[Len(path)] = "/" THEN None ELSE path[Len(path)]

\* Path::parent: None for the root directory (and the empty path).
parent(path) ==
    IF path = <<>> \/ path = Root THEN NoParent
    ELSE SubSeq(path, 1, Len(path) - 1)

\* What a run of a program file with the argument -version does: spawn is
\* "ok" or the OS error of the spawn, success the exit status, stderr the
\* text it wrote to standard error.
Banner1 == <<"x", Quote, "1", ".", "1", Quote, Newline, "x">>

Banner2 == <<"x", Quote, "2", ".", "2", "_", "1", Quote>>

Programs ==
    { [spawn |-> "ok", success |-> TRUE, stderr |-> Banner1],
      [spawn |-> "ok", success |-> TRUE, stderr |-> Banner2],
      [spawn |-> "ok", success |-> TRUE, stderr |-> <<"x", "1", "x">>],
      [spawn |-> "ok", success |-> FALSE, stderr |-> Banner1],
      [spawn |-> "EACCES", success |-> FALSE, stderr |-> <<>>] }

GoodProgram == [spawn |-> "ok", success |-> TRUE, stderr |-> Banner1]

\* The filesystems: below "/" the directories /jdk, /jdk/bin and /opt, the
\* program file /opt/java, the entry /jdk/bin/java (a program file, a
\* directory, or absent) and the symbolic link /jdk/lnk.
LinkTargets == {Root, Jdk, JdkBin, JdkBinJava, JdkLnk, Opt}

Filesystems ==
    [java : {"file", "dir", "absent"}, prog : Programs, lnk : LinkTargets]

\* The kind of the entry with the canonical path p.
Kind(p) ==
    CASE p \in {Root, Jdk, JdkBin, Opt} -> "dir"
      [] p = JdkBinJava -> fs.java
      [] p = JdkLnk -> "symlink"
      [] p = OptJava -> "file"
      [] OTHER -> "absent"

\* The target of the symbolic link p.
Target(p) == fs.lnk

\* The program held by the file p.
Program(p) == IF p = JdkBinJava THEN fs.prog ELSE GoodProgram

\* How many symbolic links the OS follows in one path resolution.
SymlinkHops == 4

\* The OS's path resolution: the canonical path of the entry that the
\* components rest, read from the directory done, lead to, every symbolic
\* link followed; NotFound when there is none.
RECURSIVE ResolveFrom(_, _, _)
ResolveFrom(done, rest, hops) ==
    IF rest = <<>> THEN done
    ELSE LET next == done \o <<Head(rest)>>
         IN CASE Kind(next) = "dir" -> ResolveFrom(next, Tail(rest), hops)
              [] Kind(next) = "file" ->
                    IF Tail(rest) = <<>> THEN next ELSE NotFound
              [] Kind(next) = "symlink" ->
                    IF hops = 0 THEN NotFound
                    ELSE ResolveFrom(Root, Tail(Target(next)) \o Tail(rest),
                                     hops - 1)
              [] OTHER -> NotFound

Resolve(path) ==
    IF path = <<>> THEN NotFound
    ELSE IF has_root(path) THEN ResolveFrom(Root, Tail(path), SymlinkHops)
    ELSE IF cwd = NoCwd THEN NotFound
    ELSE ResolveFrom(Root, Tail(cwd) \o path, SymlinkHops)

\* Path::is_file, Path::is_dir and Path::canonicalize follow symbolic links.
is_file(path) == Resolve(path) # NotFound /\ Kind(Resolve(path)) = "file"

is_dir(path) == Resolve(path) # NotFound /\ Kind(Resolve(path)) = "dir"

canonicalize(path) == Resolve(path)

\* env::consts::OS and env::consts::EXE_SUFFIX of the host the model runs on.
HostOS == "linux"

get_java_executable_name == "java"

\* The checks of looks_like_java_executable_file made on the path as it is
\* given, not on its canonical form.
looks_like_by_given_name(path) ==
    /\ is_file(path)
    /\ canonicalize(path) # NotFound
    /\ file_name(path) # None
    /\ file_name(path) = get_java_executable_name
    /\ parent(path) # NoParent
    /\ file_name(parent(path)) # None
    /\ file_name(parent(path)) = "bin"

looks_like_java_executable_file(path) ==
    IF ~is_file(path) THEN FALSE
    ELSE LET path_absolute == canonicalize(path)
         IN IF path_absolute = NotFound THEN FALSE
            ELSE /\ file_name(path_absolute) # None
                 /\ file_name(path_absolute) = get_java_executable_name
                 /\ parent(path_absolute) # NoParent
                 /\ file_name(parent(path_absolute)) # None
                 /\ file_name(parent(path_absolute)) = "bin"

WorldIdle ==
    /\ fs = [java |-> "file", prog |-> GoodProgram, lnk |-> Root]
    /\ cwd = Root

----------------------------------------------------------------------------
(* JavaRuntime and its operations.  An operation on a record is an operator *)
(* that returns what the call returns (err is "ok" or the error), the       *)
(* record it leaves or builds, how many processes it spawned, and whether   *)
(* it handed the process's output to extract_version.                       *)

\* No record: a name that holds none, a call that returned an error.
NoRecord == [os |-> "", path |-> <<>>, version_string |-> <<>>]

JavaRuntime(os, path, version_string) ==
    [os |-> os, path |-> path, version_string |-> version_string]

Ok == [kind |-> "ok"]

Err(kind) == [kind |-> kind]

ErrPath(kind, path) == [kind |-> kind, path |-> path]

ErrIo(kind, io) == [kind |-> kind, io |-> io]

\* update with the exit status looked at only after the output was parsed.
update_parses_before_status(self) ==
    IF ~looks_like_java_executable_file(self.path)
    THEN [err |-> ErrPath("LooksNotLikeJavaExecutableFile", self.path),
          rec |-> self, spawned |-> 0, parsed |-> FALSE]
    ELSE LET output_ == Program(Resolve(self.path))
         IN IF output_.spawn # "ok"
            THEN [err |-> ErrIo("JavaOutputFailed", output_.spawn),
                  rec |-> self, spawned |-> 1, parsed |-> FALSE]
            ELSE LET version == extract_version(output_.stderr)
                 IN IF version = NoJavaVersionStringFound
                    THEN [err |-> Err("NoJavaVersionStringFound"),
                          rec |-> self, spawned |-> 1, parsed |-> TRUE]
                    ELSE IF output_.success
                    THEN [err |-> Ok,
                          rec |-> [self EXCEPT !.version_string = version],
                          spawned |-> 1, parsed |-> TRUE]
                    ELSE [err |-> ErrPath("GettingJavaVersionFailed",
                                          self.path),
                          rec |-> [self EXCEPT !.version_string = version],
                          spawned |-> 1, parsed |-> TRUE]

\* JavaRuntime::update, on the record self.
update(self) ==
    IF ~looks_like_java_executable_file(self.path)
    THEN [err |-> ErrPath("LooksNotLikeJavaExecutableFile", self.path),
          rec |-> self, spawned |-> 0, parsed |-> FALSE]
    ELSE LET output_ == Program(Resolve(self.path))
         IN IF output_.spawn # "ok"
            THEN [err |-> ErrIo("JavaOutputFailed", output_.spawn),
                  rec |-> self, spawned |-> 1, parsed |-> FALSE]
            ELSE IF output_.success
            THEN LET version == extract_version(output_.stderr)
                 IN IF version = NoJavaVersionStringFound
                    THEN [err |-> Err("NoJavaVersionStringFound"),
                          rec |-> self, spawned |-> 1, parsed |-> TRUE]
                    ELSE [err |-> Ok,
                          rec |-> [self EXCEPT !.version_string = version],
                          spawned |-> 1, parsed |-> TRUE]
            ELSE [err |-> ErrPath("GettingJavaVersionFailed", self.path),
                  rec |-> self, spawned |-> 1, parsed |-> FALSE]

\* from_executable without the ? on update: the record is returned whether
\* or not the probe succeeded.
from_executable_unchecked(path) ==
    [update(JavaRuntime(HostOS, path, <<>>)) EXCEPT !.err = Ok]

\* from_executable storing the canonical form of the path.
from_executable_canonical(path) ==
    LET java == update(JavaRuntime(HostOS, canonicalize(path), <<>>))
    IN IF java.err # Ok THEN [java EXCEPT !.rec = NoRecord] ELSE java

\* JavaRuntime::from_executable.
from_executable(path) ==
    LET java == update(JavaRuntime(HostOS, path, <<>>))
    IN IF java.err # Ok THEN [java EXCEPT !.rec = NoRecord] ELSE java

\* JavaRuntime::new.
new(os, path, version_string) ==
    LET version == extract_version(version_string)
    IN IF version = NoJavaVersionStringFound
       THEN [err |-> Err("NoJavaVersionStringFound"), rec |-> NoRecord,
             spawned |-> 0, parsed |-> FALSE]
       ELSE [err |-> Ok, rec |-> JavaRuntime(os, path, version),
             spawned |-> 0, parsed |-> FALSE]

\* JavaRuntime::to_absolute.
to_absolute(self) ==
    IF cwd = NoCwd
    THEN [err |-> Err("InvalidWorkDir"), rec |-> NoRecord,
          spawned |-> 0, parsed |-> FALSE]
    ELSE LET path_absolute == join(self.path, cwd)
         IN new(self.os, path_absolute, self.version_string)

\* Clone::clone.
clone(self) ==
    JavaRuntime(self.os, self.path, self.version_string)

\* Clone::clone_from: the record self becomes.
clone_from(self, source) ==
    [self EXCEPT !.os = source.os, !.path = source.path,
                 !.version_string = source.version_string]

(* The record specification: a caller holding records under the names of  *)
(* Slots calls the operations in any order, and the world changes between *)
(* the calls.                                                             *)

Slots == {"r1", "r2"}

OsTags == {HostOS, "windows"}

RecPaths ==
    { JdkBinJava, <<"bin", "java">>, <<"/", "jdk", "lnk", "java">>, OptJava }

VersionTexts == { Banner2, <<"1", ".", "1">>, <<"1">>, <<"x">> }

RecIdle ==
    /\ recs = [s \in Slots |-> NoRecord]
    /\ res = [op |-> "none"]

\* What a call leaves in res: the operation, the name it was called on or
\* stored its result under, its argument, the record there before the call
\* (of to_absolute: the receiver before the call), and what the call
\* returned.
Called(op, slot, arg, r) ==
    [op |-> op, slot |-> slot, arg |-> arg, before |-> recs[slot],
     err |-> r.err, spawned |-> r.spawned, parsed |-> r.parsed]

\* let slot = JavaRuntime::new(os, path, version_string)?
New(slot, os, path, version_string) ==
    LET r == new(os, path, version_string)
    IN /\ recs[slot] = NoRecord
       /\ recs' = IF r.err = Ok THEN [recs EXCEPT ![slot] = r.rec] ELSE recs
       /\ res' = Called("new", slot, version_string, r)
       /\ UNCHANGED <<parseVars, worldVars, walkVars>>

\* let slot = JavaRuntime::from_executable(path)?
FromExecutable(slot, path) ==
    LET r == from_executable(path)
    IN /\ recs[slot] = NoRecord
       /\ recs' = IF r.err = Ok THEN [recs EXCEPT ![slot] = r.rec] ELSE recs
       /\ res' = Called("from_executable", slot, path, r)
       /\ UNCHANGED <<parseVars, worldVars, walkVars>>

\* slot.update()
Update(slot) ==
    /\ recs[slot] # NoRecord
    /\ LET r == update(recs[slot])
       IN /\ recs' = [recs EXCEPT ![slot] = r.rec]
          /\ res' = Called("update", slot, recs[slot].path, r)
    /\ UNCHANGED <<parseVars, worldVars, walkVars>>

\* let slot = from.to_absolute()?
ToAbsolute(slot, from) ==
    /\ recs[from] # NoRecord
    /\ recs[slot] = NoRecord
    /\ LET r == to_absolute(recs[from])
       IN /\ recs' = IF r.err = Ok THEN [recs EXCEPT ![slot] = r.rec]
                     ELSE recs
          /\ res' = [Called("to_absolute", slot, from, r)
                        EXCEPT !.before = recs[from]]
    /\ UNCHANGED <<parseVars, worldVars, walkVars>>

\* let slot = from.clone()
Clone(slot, from) ==
    /\ recs[from] # NoRecord
    /\ recs[slot] = NoRecord
    /\ recs' = [recs EXCEPT ![slot] = clone(recs[from])]
    /\ res' = [op |-> "clone", slot |-> slot, arg |-> from,
               before |-> recs[slot], err |-> Ok, spawned |-> 0,
               parsed |-> FALSE]
    /\ UNCHANGED <<parseVars, worldVars, walkVars>>

\* slot.clone_from(&from)
CloneFrom(slot, from) ==
    /\ recs[from] # NoRecord
    /\ recs[slot] # NoRecord
    /\ slot # from
    /\ recs' = [recs EXCEPT ![slot] = clone_from(recs[slot], recs[from])]
    /\ res' = [op |-> "clone_from", slot |-> slot, arg |-> from,
               before |-> recs[slot], err |-> Ok, spawned |-> 0,
               parsed |-> FALSE]
    /\ UNCHANGED <<parseVars, worldVars, walkVars>>

\* The detector before any call: an empty vector, nothing in progress.
WalkIdle ==
    /\ runtimes = <<>>
    /\ wpc = "idle"
    /\ call = [op |-> "none"]
    /\ queue = <<>>
    /\ count = 0
    /\ begin_count = 0
    /\ stack = <<>>
    /\ opened = {}
    /\ env = [v \in {} |-> <<>>]

\* The worlds of the record specification: /jdk/bin/java is a program file
\* of any behaviour or a directory, /jdk/lnk leads to /jdk/bin, to /opt or
\* to itself, and the working directory is /jdk or cannot be determined.
RecordFilesystems ==
    {f \in Filesystems :
        /\ f.java \in {"file", "dir"}
        /\ f.java = "dir" => f.prog = GoodProgram
        /\ f.lnk \in {JdkBin, Opt, JdkLnk}}

InitRecord ==
    /\ input = <<>>
    /\ output = NoJavaVersionStringFound
    /\ ppc = "done"
    /\ fs \in RecordFilesystems
    /\ cwd \in {Jdk, NoCwd}
    /\ RecIdle
    /\ WalkIdle

NextRecord ==
    \/ \E os \in OsTags, path \in RecPaths, text \in VersionTexts :
          New("r1", os, path, text)
    \/ \E path \in RecPaths : FromExecutable("r1", path)
    \/ \E slot \in Slots : Update(slot)
    \/ ToAbsolute("r2", "r1")
    \/ Clone("r2", "r1")
    \/ \E slot, from \in Slots : CloneFrom(slot, from)

SpecRecord == InitRecord /\ [][NextRecord]_vars

----------------------------------------------------------------------------
(* Comparing records: impl PartialEq for JavaRuntime.                       *)

\* An equality that compares every field, as a derived PartialEq would.
eq_every_field(self, other) ==
    /\ self.os = other.os
    /\ self.path = other.path
    /\ self.version_string = other.version_string

\* PartialEq::eq
eq(self, other) == self.os = other.os /\ self.path = other.path

\* PartialEq::ne
ne(self, other) == ~eq(self, other)

\* slot == from, slot != from: res keeps what the comparison returned.
Compared(op, slot, from, ret) ==
    [op |-> op, slot |-> slot, arg |-> from, before |-> recs[slot],
     err |-> Ok, spawned |-> 0, parsed |-> FALSE, ret |-> ret]

Eq(slot, from) ==
    /\ recs[slot] # NoRecord
    /\ recs[from] # NoRecord
    /\ res' = Compared("eq", slot, from, eq(recs[slot], recs[from]))
    /\ UNCHANGED <<recs, parseVars, worldVars, walkVars>>

Ne(slot, from) ==
    /\ recs[slot] # NoRecord
    /\ recs[from] # NoRecord
    /\ res' = Compared("ne", slot, from, ne(recs[slot], recs[from]))
    /\ UNCHANGED <<recs, parseVars, worldVars, walkVars>>

\* The comparison specification: a caller builds records under both names
\* with new, clones and updates them, and compares them.  /jdk/bin/java is
\* a runtime that reports one version or another.
EqFilesystems ==
    {f \in Filesystems :
        /\ f.java = "file"
        /\ f.prog.spawn = "ok" /\ f.prog.success
        /\ f.lnk = JdkBin}

InitEq ==
    /\ input = <<>>
    /\ output = NoJavaVersionStringFound
    /\ ppc = "done"
    /\ fs \in EqFilesystems
    /\ cwd = Jdk
    /\ RecIdle
    /\ WalkIdle

NextEq ==
    \/ \E slot \in Slots, os \in OsTags, path \in RecPaths,
          text \in VersionTexts : New(slot, os, path, text)
    \/ \E slot \in Slots : Update(slot)
    \/ Clone("r2", "r1")
    \/ \E slot, from \in Slots : CloneFrom(slot, from)
    \/ \E slot, from \in Slots : Eq(slot, from)
    \/ \E slot, from \in Slots : Ne(slot, from)

SpecEq == InitEq /\ [][NextEq]_vars

----------------------------------------------------------------------------
(* The classifier on its own: looks_like_java_executable_file is called on *)
(* a path in any filesystem and working directory of the model.            *)

LooksPaths ==
    { JdkBinJava, JdkBin, JdkLnk, JdkLnk \o <<"java">>, OptJava,
      <<"bin", "java">>, <<"java">>, <<"/", "none">>,
      <<"/", "none", "bin", "java">> }

\* Self::looks_like_java_executable_file(path)
LooksLike(path) ==
    /\ res' = [op |-> "looks_like", slot |-> "r1", arg |-> path,
               before |-> NoRecord, err |-> Ok, spawned |-> 0,
               parsed |-> FALSE,
               ret |-> looks_like_java_executable_file(path)]
    /\ UNCHANGED <<recs, parseVars, worldVars, walkVars>>

InitLooks ==
    /\ input = <<>>
    /\ output = NoJavaVersionStringFound
    /\ ppc = "done"
    /\ fs \in Filesystems
    /\ cwd \in {Root, Jdk, NoCwd}
    /\ RecIdle
    /\ WalkIdle

NextLooks == \E path \in LooksPaths : LooksLike(path)

SpecLooks == InitLooks /\ [][NextLooks]_vars

----------------------------------------------------------------------------
(* The detector: gather_java and its callers.  A call runs to its return   *)
(* in steps: one per path of a list of paths, one per entry that the       *)
(* WalkDir iterator yields.                                                 *)

\* fs::symlink_metadata: the kind of the entry a path names, its last
\* component not followed when it is a symbolic link.
symlink_metadata(path) ==
    IF path = <<>> THEN "absent"
    ELSE IF path = Root THEN "dir"
    ELSE IF Len(path) = 1 THEN
        IF cwd = NoCwd THEN "absent" ELSE Kind(cwd \o path)
    ELSE LET dir == Resolve(parent(path))
         IN IF dir = NotFound \/ Kind(dir) # "dir" THEN "absent"
            ELSE Kind(dir \o <<path[Len(path)]>>)

Names == {"jdk", "bin", "java", "lnk", "opt"}

\* fs::read_dir: the entries of the directory a path leads to.
read_dir(path) ==
    LET dir == Resolve(path)
    IN IF dir = NotFound \/ Kind(dir) # "dir" THEN {}
       ELSE {path \o <<n>> : n \in {k \in Names : Kind(dir \o <<k>>) # "absent"}}

\* WalkDir::new(path): the root entry, when there is one.  The iterator
\* yields an error, which filter_map(Result::ok) drops, for a root that
\* does not exist and for a root that is a broken symbolic link.
WalkDirNew(path) ==
    IF \/ symlink_metadata(path) = "absent"
       \/ symlink_metadata(path) = "symlink" /\ Resolve(path) = NotFound
    THEN <<>>
    ELSE << [depth |-> 0, rest |-> {path}] >>

\* WalkDir with follow_links(true): every directory a link leads to is
\* descended into.
descends_following_links(entry, depth, max_depth) ==
    /\ depth < max_depth
    /\ is_dir(entry)

\* .max_depth(max_depth).follow_links(false): the iterator reads the
\* entries of a directory above the depth bound, and of no symbolic link
\* but the root of the walk, which WalkDir always follows.
descends(entry, depth, max_depth) ==
    /\ depth < max_depth
    /\ \/ symlink_metadata(entry) = "dir"
       \/ depth = 0 /\ symlink_metadata(entry) = "symlink" /\ is_dir(entry)

\* The iterator's stack without the directories it has read to their end.
RECURSIVE Popped(_)
Popped(frames) ==
    IF frames # <<>> /\ frames[Len(frames)].rest = {}
    THEN Popped(SubSeq(frames, 1, Len(frames) - 1))
    ELSE frames

\* JavaRuntime::from_java_exe, which detector.rs calls and lib.rs does not
\* define: the probe of a candidate executable, as from_executable is.
from_java_exe(path) == from_executable(path)

\* detect_java_exe: the record, or NoRecord for None.
detect_java_exe(path) == from_java_exe(path).rec

\* detect_java_bin_dir testing the path itself.
detect_java_bin_dir_unjoined(bin_dir) == detect_java_exe(bin_dir)

detect_java_bin_dir(bin_dir) ==
    detect_java_exe(join(bin_dir, <<get_java_executable_name>>))

detect_java_home_dir(java_home) ==
    detect_java_bin_dir(join(java_home, <<"bin">>))

\* runtimes.push(runtime), skipping a runtime the vector holds already.
push_if_absent(vector, runtime) ==
    IF \E i \in 1..Len(vector) :
          vector[i].os = runtime.os /\ vector[i].path = runtime.path
    THEN vector
    ELSE Append(vector, runtime)

\* runtimes.push(runtime)
push(vector, runtime) == Append(vector, runtime)

\* How long a vector may be when a call is made on it, and the depths a
\* caller asks for.
MaxRuntimes == 2

MaxDepth == 3

\* A caller enters one of the functions over a list of paths: the vector
\* is the caller's or, for the detect_ functions, a new one.
Enter(op, vector, paths, max_depth) ==
    /\ wpc = "idle"
    /\ Len(vector) <= MaxRuntimes
    /\ runtimes' = vector
    /\ call' = [op |-> op, paths |-> paths, max_depth |-> max_depth,
                base |-> vector, ret |-> -1]
    /\ queue' = paths
    /\ count' = 0
    /\ wpc' = "paths"
    /\ stack' = <<>>
    /\ opened' = {}
    /\ UNCHANGED <<begin_count, env, parseVars, worldVars, recVars>>

\* gather_java(&mut runtimes, path, max_depth)
CallGatherJava(path, max_depth) ==
    Enter("gather_java", runtimes, <<path>>, max_depth)

\* gather_java_in_paths(&mut runtimes, paths, max_depth)
CallGatherJavaInPaths(paths, max_depth) ==
    Enter("gather_java_in_paths", runtimes, paths, max_depth)

\* detect_java(path, max_depth)
CallDetectJava(path, max_depth) ==
    Enter("detect_java", <<>>, <<path>>, max_depth)

\* detect_java_in_paths(paths, max_depth)
CallDetectJavaInPaths(paths, max_depth) ==
    Enter("detect_java_in_paths", <<>>, paths, max_depth)

\* The head of gather_java, on the next path of the list: a path that is a
\* file and is detected is pushed and gather_java returns 1; otherwise the
\* walk of the path begins.
ReturnsAtOnce(path) ==
    is_file(path) /\ detect_java_bin_dir(path) # NoRecord

GatherJavaBegin ==
    /\ wpc = "paths"
    /\ queue # <<>>
    /\ runtimes' = IF ReturnsAtOnce(Head(queue))
                   THEN push(runtimes, detect_java_bin_dir(Head(queue)))
                   ELSE runtimes
    /\ count' = IF ReturnsAtOnce(Head(queue)) THEN count + 1 ELSE count
    /\ wpc' = IF ReturnsAtOnce(Head(queue)) THEN "paths" ELSE "walk"
    /\ stack' = IF ReturnsAtOnce(Head(queue)) THEN stack
                ELSE WalkDirNew(Head(queue))
    /\ begin_count' = IF ReturnsAtOnce(Head(queue)) THEN begin_count
                      ELSE Len(runtimes)
    /\ queue' = Tail(queue)
    /\ opened' = {}
    /\ UNCHANGED <<call, env, parseVars, worldVars, recVars>>

\* The iterator after it has yielded an entry of the directory it is
\* reading: the entry is off the directory's list, and the entry's own
\* directory is on the stack when the iterator descends into it.
Yielded(frames, entry, max_depth) ==
    LET top == frames[Len(frames)]
        left == [frames EXCEPT ![Len(frames)].rest = @ \ {entry}]
    IN Popped(IF descends(entry, top.depth, max_depth)
              THEN Append(left, [depth |-> top.depth + 1,
                                 rest |-> read_dir(entry)])
              ELSE left)

\* One turn of gather_java's loop: the iterator yields an entry (in no
\* particular order), and the entry is tested by detect_java_bin_dir.
GatherJavaEntry ==
    /\ wpc = "walk"
    /\ stack # <<>>
    /\ \E entry \in stack[Len(stack)].rest :
          /\ stack' = Yielded(stack, entry, call.max_depth)
          /\ opened' =
                IF descends(entry, stack[Len(stack)].depth, call.max_depth)
                THEN opened \cup {[path |-> entry,
                                   depth |-> stack[Len(stack)].depth]}
                ELSE opened
          /\ runtimes' = IF detect_java_bin_dir(entry) # NoRecord
                         THEN push(runtimes, detect_java_bin_dir(entry))
                         ELSE runtimes
    /\ UNCHANGED <<wpc, call, queue, count, begin_count, env,
                   parseVars, worldVars, recVars>>

\* The iterator is at its end: gather_java returns
\* runtimes.len() - begin_count to the loop over the paths.
GatherJavaReturn ==
    /\ wpc = "walk"
    /\ stack = <<>>
    /\ count' = count + (Len(runtimes) - begin_count)
    /\ wpc' = "paths"
    /\ UNCHANGED <<runtimes, call, queue, begin_count, stack, opened, env,
                   parseVars, worldVars, recVars>>

\* The list of paths is at its end: the call returns.
Return ==
    /\ wpc = "paths"
    /\ queue = <<>>
    /\ call' = [call EXCEPT !.ret = count]
    /\ wpc' = "idle"
    /\ UNCHANGED <<runtimes, queue, count, begin_count, stack, opened, env,
                   parseVars, worldVars, recVars>>

\* The filesystems the walker is run on, and the paths it is given.
WalkFilesystems ==
    {f \in Filesystems :
        /\ f.java \in {"file", "dir"}
        /\ f.prog \in {GoodProgram,
                       [spawn |-> "EACCES", success |-> FALSE, stderr |-> <<>>]}
        /\ f.java = "dir" => f.prog = GoodProgram}

WalkRoots == {Root, Jdk, JdkBin, JdkBinJava, JdkLnk, Opt, <<"/", "none">>}

WalkPathLists == { <<>>, <<JdkBin, JdkBin>>, <<Jdk, JdkLnk>> }

Depths == 0..MaxDepth

InitWalk ==
    /\ input = <<>>
    /\ output = NoJavaVersionStringFound
    /\ ppc = "done"
    /\ fs \in WalkFilesystems
    /\ cwd = Root
    /\ RecIdle
    /\ WalkIdle

NextWalk ==
    \/ \E path \in WalkRoots, max_depth \in Depths :
          CallGatherJava(path, max_depth)
    \/ \E paths \in WalkPathLists, max_depth \in Depths :
          CallGatherJavaInPaths(paths, max_depth)
    \/ \E path \in WalkRoots, max_depth \in Depths :
          CallDetectJava(path, max_depth)
    \/ \E paths \in WalkPathLists, max_depth \in Depths :
          CallDetectJavaInPaths(paths, max_depth)
    \/ GatherJavaBegin
    \/ GatherJavaEntry
    \/ GatherJavaReturn
    \/ Return

SpecWalk == InitWalk /\ [][NextWalk]_vars

----------------------------------------------------------------------------
(* detect_java_in_environments.  The value of an environment variable is   *)
(* a text: a sequence of pieces, each "/", a separator character or part   *)
(* of a name.                                                               *)

\* str::split(pat): the texts between the occurrences of the text pat, read
\* from the left; a text that holds none is the one text of the result.
RECURSIVE split(_, _, _)
split(text, pat, piece) ==
    IF text = <<>> THEN <<piece>>
    ELSE IF IsPrefix(pat, text)
    THEN <<piece>> \o split(SubSeq(text, Len(pat) + 1, Len(text)), pat, <<>>)
    ELSE split(Tail(text), pat, Append(piece, Head(text)))

\* The names between the "/" of a text.
RECURSIVE Components(_, _)
Components(text, name) ==
    IF text = <<>> THEN IF name = "" THEN <<>> ELSE <<name>>
    ELSE IF Head(text) = "/"
    THEN (IF name = "" THEN <<>> ELSE <<name>>) \o Components(Tail(text), "")
    ELSE Components(Tail(text), name \o Head(text))

\* Path::new(text), text.as_ref(): the path a text spells.
PathNew(text) ==
    IF text # <<>> /\ Head(text) = "/"
    THEN Root \o Components(text, "")
    ELSE Components(text, "")

\* The pattern that detect_java_in_environments splits PATH on: a string,
\* which split looks for as it is written.
PathPattern == <<":", "|", ";">>

EnvNames == <<"JAVA_HOME", "JAVA_ROOT", "JDK_HOME", "JRE_HOME">>

\* The paths gather_env walks: the values of the variables that are set.
RECURSIVE GatherEnvPaths(_)
GatherEnvPaths(var_names) ==
    IF var_names = <<>> THEN <<>>
    ELSE (IF Head(var_names) \in DOMAIN env
          THEN <<PathNew(env[Head(var_names)])>>
          ELSE <<>>) \o GatherEnvPaths(Tail(var_names))

\* env_path.split(r":|;").map(Path::new)
SplitPaths(env_path) ==
    LET texts == split(env_path, PathPattern, <<>>)
    IN [i \in 1..Len(texts) |-> PathNew(texts[i])]

\* detect_java_in_environments(): gather_java at depth 1 on the value of
\* each variable that is set, then gather_java_in_paths at depth 1 on the
\* texts that PATH is split into.
CallDetectJavaInEnvironments ==
    Enter("detect_java_in_environments", <<>>,
          GatherEnvPaths(EnvNames)
              \o (IF "PATH" \in DOMAIN env THEN SplitPaths(env["PATH"])
                  ELSE <<>>),
          1)

\* The environments: each variable unset or set, PATH to a text of at most
\* MaxPathFrags fragments.
MaxPathFrags == 3

PathFragments ==
    { <<"/", "jdk", "/", "bin">>, <<"/", "opt">>, <<":">>, <<";">>,
      <<":", "|", ";">> }

PathTexts ==
    UNION { {Flatten(pieces) : pieces \in [1..n -> PathFragments]} :
              n \in 0..MaxPathFrags }

HomeTexts == { <<"/", "jdk">>, <<"/", "jdk", "/", "lnk">> }

\* A variable that is not set has no text.
Unset == <<"unset">>

Settings ==
    [ JAVA_HOME : HomeTexts \cup {Unset},
      JAVA_ROOT : {<<"/", "jdk", "/", "bin">>, Unset},
      JDK_HOME : {<<"/", "jdk", "/", "lnk">>, Unset},
      JRE_HOME : {<<"/", "jdk", "/", "bin">>, Unset},
      PATH : PathTexts \cup {Unset} ]

Environments ==
    { [n \in {m \in DOMAIN setting : setting[m] # Unset} |-> setting[n]] :
        setting \in Settings }

InitEnv ==
    /\ input = <<>>
    /\ output = NoJavaVersionStringFound
    /\ ppc = "done"
    /\ fs \in {f \in WalkFilesystems :
                  f.java = "file" /\ f.prog = GoodProgram
                                 /\ f.lnk \in {JdkBin, Jdk}}
    /\ cwd = Root
    /\ RecIdle
    /\ runtimes = <<>>
    /\ wpc = "idle"
    /\ call = [op |-> "none"]
    /\ queue = <<>>
    /\ count = 0
    /\ begin_count = 0
    /\ stack = <<>>
    /\ opened = {}
    /\ env \in Environments

NextEnv ==
    \/ CallDetectJavaInEnvironments
    \/ GatherJavaBegin
    \/ GatherJavaEntry
    \/ GatherJavaReturn
    \/ Return

SpecEnv == InitEnv /\ [][NextEnv]_vars

----------------------------------------------------------------------------
(* The parser's inputs: texts put together from at most MaxFrags pieces. *)

MaxFrags == 5

Fragments ==
    { <<Quote>>, <<"1">>, <<".">>, <<"_">>, <<"x">>, <<Newline>>,
      <<"1", ".", "1">>, <<"2", ".", "2">> }

\* The texts of n pieces.
Texts(n) == {Flatten(pieces) : pieces \in [1..n -> Fragments]}

InitParse ==
    /\ \E n \in 0..MaxFrags : input \in Texts(n)
    /\ output = NoJavaVersionStringFound
    /\ ppc = "input"
    /\ WorldIdle
    /\ RecIdle
    /\ WalkIdle

ExtractVersionCall ==
    /\ ppc = "input"
    /\ output' = extract_version(input)
    /\ ppc' = "done"
    /\ UNCHANGED <<input, worldVars, recVars, walkVars>>

NextParse == ExtractVersionCall

SpecParse == InitParse /\ [][NextParse]_vars

----------------------------------------------------------------------------
(* C1 *)

\* The places of the double-quoted version tokens of a text: the opening
\* quote of each.
QuotedTokens(t) ==
    {i \in 1..Len(t) :
        /\ t[i] = Quote
        /\ \E j \in (i + 1)..Len(t) :
              t[j] = Quote /\ IsVersionToken(SubSeq(t, i + 1, j - 1))}

FirstQuotedToken(t) ==
    LET i == Min(QuotedTokens(t))
        j == Min({k \in (i + 1)..Len(t) : t[k] = Quote})
    IN SubSeq(t, i + 1, j - 1)

\* A version token can be extracted from a text: the text in quotes holds
\* a double-quoted version token.
HasVersionToken(t) == QuotedTokens(<<Quote>> \o t \o <<Quote>>) # {}

\* C1: for every text holding a double-quoted version token extract_version
\* returns the first (leftmost) such token without its quotes, and a bare
\* token is returned unchanged.
C1_FirstQuotedToken ==
    ppc = "done" =>
        /\ QuotedTokens(input) # {} => output = FirstQuotedToken(input)
        /\ IsVersionToken(input) => output = input

----------------------------------------------------------------------------
(* What a walk visits, told from the filesystem alone. *)

\* The entries at and below an entry, no symbolic link followed but the
\* root of the walk.
RECURSIVE Subtree(_, _)
Subtree(entry, isRoot) ==
    {entry} \cup
        IF \/ symlink_metadata(entry) = "dir"
           \/ isRoot /\ is_dir(entry)
        THEN UNION {Subtree(child, FALSE) : child \in read_dir(entry)}
        ELSE {}

Tree(root) ==
    IF symlink_metadata(root) = "absent" \/ Resolve(root) = NotFound THEN {}
    ELSE Subtree(root, TRUE)

DepthBelow(root, path) == Len(path) - Len(root)

\* The paths E/java, E an entry of the tree of root, that pass the
\* classification and the probe.
JavaPaths(root) ==
    {f \in {join(e, <<"java">>) : e \in Tree(root)} :
        from_executable(f).err = Ok}

\* All the paths of the tree of root that pass them, whatever their name.
QualifyingPaths(root) ==
    JavaPaths(root) \cup {e \in Tree(root) : from_executable(e).err = Ok}

\* How many runtimes a walk of root down to max_depth meets.
Found(root, max_depth) ==
    {f \in JavaPaths(root) : DepthBelow(root, f) - 1 <= max_depth}

RECURSIVE SumFound(_, _)
SumFound(paths, max_depth) ==
    IF paths = <<>> THEN 0
    ELSE Cardinality(Found(Head(paths), max_depth))
            + SumFound(Tail(paths), max_depth)

Returned(ops) == wpc = "idle" /\ call.op \in ops

----------------------------------------------------------------------------
(* C2 *)

\* C2 as stated: when the only file of a directory root that passes the
\* classification and the probe lies at depth d, detect_java returns a
\* record for it whenever max_depth >= d and nothing whenever max_depth < d.
C2_FoundFromDepthD ==
    Returned({"detect_java"}) =>
        LET root == call.paths[1]
            q == QualifyingPaths(root)
        IN is_dir(root) /\ Cardinality(q) = 1 =>
              LET f == CHOOSE x \in q : TRUE
                  d == DepthBelow(root, f)
              IN /\ call.max_depth >= d =>
                    \E i \in 1..Len(runtimes) : runtimes[i].path = f
                 /\ call.max_depth < d => runtimes = <<>>

\* C2, amended: when exactly one path E/java of a directory root passes
\* the classification and the probe, at depth d, detect_java returns one
\* record, for that path, whenever max_depth >= d - 1, and nothing
\* whenever max_depth < d - 1.
C2_FoundFromParentDepth ==
    Returned({"detect_java"}) =>
        LET root == call.paths[1]
            q == JavaPaths(root)
        IN is_dir(root) /\ Cardinality(q) = 1 =>
              LET f == CHOOSE x \in q : TRUE
                  d == DepthBelow(root, f)
              IN /\ call.max_depth >= d - 1 =>
                    runtimes = <<from_executable(f).rec>>
                 /\ call.max_depth < d - 1 => runtimes = <<>>

\* detect_java("/jdk", 1) has returned the one runtime, which lies at
\* depth 2.
C2_Witness ==
    /\ Returned({"detect_java"})
    /\ call.paths = <<Jdk>>
    /\ call.max_depth = 1
    /\ JavaPaths(Jdk) = {JdkBinJava}
    /\ runtimes = <<JavaRuntime(HostOS, JdkBinJava, <<"1", ".", "1">>)>>

----------------------------------------------------------------------------
(* C3 *)

\* C3: when the root is a regular file that passes the classification and
\* the probe, the call appends exactly one record, whose path is the root,
\* and gather_java returns 1, whatever max_depth is.
C3_FileRoot ==
    Returned({"gather_java", "detect_java"}) =>
        LET root == call.paths[1]
        IN is_file(root) /\ from_executable(root).err = Ok =>
              /\ runtimes = Append(call.base, from_executable(root).rec)
              /\ call.ret = 1

----------------------------------------------------------------------------
(* C4 *)

\* The directories that a PATH value lists: the texts between its colons
\* and semicolons.
RECURSIVE ListedDirs(_, _)
ListedDirs(text, piece) ==
    IF text = <<>> THEN <<PathNew(piece)>>
    ELSE IF Head(text) \in {":", ";"}
    THEN <<PathNew(piece)>> \o ListedDirs(Tail(text), <<>>)
    ELSE ListedDirs(Tail(text), Append(piece, Head(text)))

\* A vector is the records of the walks of the roots at depth 1, one walk
\* after the other.
RECURSIVE WalkByWalk(_, _)
WalkByWalk(vector, roots) ==
    IF roots = <<>> THEN vector = <<>>
    ELSE LET found == Found(Head(roots), 1)
             m == Cardinality(found)
         IN /\ Len(vector) >= m
            /\ {vector[i].path : i \in 1..m} = found
            /\ WalkByWalk(SubSeq(vector, m + 1, Len(vector)), Tail(roots))

\* C4: detect_java_in_environments walks every directory that PATH lists
\* between colons or semicolons at depth 1: a runtime that sits directly in
\* a listed directory is in the result, and the result is the records of
\* JAVA_HOME, JAVA_ROOT, JDK_HOME, JRE_HOME and of the listed directories,
\* in that order.
C4_PathListed ==
    Returned({"detect_java_in_environments"}) /\ "PATH" \in DOMAIN env =>
        LET listed == ListedDirs(env["PATH"], <<>>)
        IN /\ \A i \in 1..Len(listed) :
                 detect_java_bin_dir(listed[i]) # NoRecord =>
                    \E k \in 1..Len(runtimes) :
                       runtimes[k] = detect_java_bin_dir(listed[i])
           /\ WalkByWalk(runtimes, GatherEnvPaths(EnvNames) \o listed)

----------------------------------------------------------------------------
(* C9 *)

RECURSIVE YieldCount(_, _, _), YieldCountOver(_, _, _)
YieldCount(entry, depth, max_depth) ==
    1 + IF /\ depth < max_depth
           /\ \/ symlink_metadata(entry) = "dir"
              \/ depth = 0 /\ is_dir(entry)
        THEN YieldCountOver(read_dir(entry), depth + 1, max_depth)
        ELSE 0

YieldCountOver(entries, depth, max_depth) ==
    IF entries = {} THEN 0
    ELSE LET e == CHOOSE x \in entries : TRUE
         IN YieldCount(e, depth, max_depth)
               + YieldCountOver(entries \ {e}, depth, max_depth)

RECURSIVE StackCount(_, _), QueueCount(_, _)
StackCount(frames, max_depth) ==
    IF frames = <<>> THEN 0
    ELSE YieldCountOver(Head(frames).rest, Head(frames).depth, max_depth)
            + StackCount(Tail(frames), max_depth)

QueueCount(paths, max_depth) ==
    IF paths = <<>> THEN 0
    ELSE 3 + YieldCount(Head(paths), 0, max_depth)
            + QueueCount(Tail(paths), max_depth)

\* A bound on the steps a call has still to take from a position: one per
\* entry its walks have still to yield, three per walk (its begin, its
\* return, a root that yields nothing), one for the return of the call.
StepsLeft(pc, frames, paths, max_depth) ==
    CASE pc = "idle" -> 0
      [] pc = "paths" -> 1 + QueueCount(paths, max_depth)
      [] pc = "walk" ->
            2 + StackCount(frames, max_depth) + QueueCount(paths, max_depth)

----------------------------------------------------------------------------
(* C10 *)

\* C10: the vector a call was made on stays a prefix of the vector, the
\* call returns the number of records it appended, and that is the number
\* of runtimes its walks met, whatever the vector held.
C10_AppendOnly ==
    call.op # "none" =>
        /\ IsPrefix(call.base, runtimes)
        /\ wpc = "idle" =>
              /\ call.ret = Len(runtimes) - Len(call.base)
              /\ call.ret = SumFound(call.paths, call.max_depth)

\* gather_java_in_paths over the same directory twice has returned 2, and
\* the vector holds the same record twice.
C10_Witness ==
    /\ Returned({"gather_java_in_paths"})
    /\ call.paths = <<JdkBin, JdkBin>>
    /\ call.ret = 2
    /\ Len(runtimes) >= 2
    /\ runtimes[Len(runtimes)] = runtimes[Len(runtimes) - 1]

----------------------------------------------------------------------------
(* C5 *)

\* The absolute form of a path: the working directory followed by it, an
\* absolute path as it is.
AbsoluteForm(path) == IF has_root(path) THEN path ELSE cwd \o path

\* C5: to_absolute returns a new record with the receiver's os and
\* versionString and the absolute form of its path, leaving the receiver
\* as it was; it returns InvalidWorkDir when the working directory cannot
\* be determined.
C5_ToAbsolute ==
    res.op = "to_absolute" =>
        /\ recs[res.arg] = res.before
        /\ IF cwd = NoCwd
           THEN res.err = Err("InvalidWorkDir") /\ recs[res.slot] = NoRecord
           ELSE /\ res.err = Ok
                /\ recs[res.slot] =
                      JavaRuntime(res.before.os, AbsoluteForm(res.before.path),
                                  res.before.version_string)

----------------------------------------------------------------------------
(* C6 *)

\* C6: every record that exists has a versionString of the version
\* grammar (so a non-empty one), and new and from_executable return an
\* error and no record when no version token can be extracted.
C6_VersionConformant ==
    /\ \A s \in Slots :
          recs[s] # NoRecord => IsVersionToken(recs[s].version_string)
    /\ res.op \in {"new", "from_executable"} /\ res.err # Ok =>
          recs[res.slot] = NoRecord
    /\ res.op = "new" /\ ~HasVersionToken(res.arg) =>
          res.err = Err("NoJavaVersionStringFound")
    /\ res.op = "from_executable" /\ res.parsed
          /\ ~HasVersionToken(Program(Resolve(res.arg)).stderr) =>
          res.err = Err("NoJavaVersionStringFound")

\* Both names hold a record, and an update of one has just failed for want
\* of a version token in the program's output.
C6_Witness ==
    /\ recs["r1"] # NoRecord
    /\ recs["r2"] # NoRecord
    /\ res.op = "update"
    /\ res.err = Err("NoJavaVersionStringFound")

----------------------------------------------------------------------------
(* C7 *)

\* C7: update never changes os and path, and changes nothing at all when
\* it returns an error.
C7_UpdateFrame ==
    res.op = "update" =>
        /\ recs[res.slot].os = res.before.os
        /\ recs[res.slot].path = res.before.path
        /\ res.err # Ok => recs[res.slot] = res.before

\* An update that failed on a record holding a version, after the process
\* ran and exited with a failure status.
C7_Witness ==
    /\ res.op = "update"
    /\ res.err = ErrPath("GettingJavaVersionFailed", recs[res.slot].path)
    /\ recs[res.slot].version_string = <<"2", ".", "2", "_", "1">>

----------------------------------------------------------------------------
(* C8 *)

\* C8: a probe is decided by the first step that fails: the classifier
\* (no process spawned), the spawn, the exit status (output not parsed),
\* the parse; otherwise the record holds the literal path, and the host's
\* OS tag when from_executable built it.  No call spawns twice.
C8_ProbeOrder ==
    res.op \in {"from_executable", "update"} =>
        LET p == res.arg
            prog == Program(Resolve(p))
            rec == recs[res.slot]
        IN /\ res.spawned <= 1
           /\ ~looks_like_java_executable_file(p) =>
                 /\ res.err = ErrPath("LooksNotLikeJavaExecutableFile", p)
                 /\ res.spawned = 0
           /\ looks_like_java_executable_file(p) =>
                 /\ res.spawned = 1
                 /\ prog.spawn # "ok" =>
                       res.err = ErrIo("JavaOutputFailed", prog.spawn)
                 /\ prog.spawn = "ok" /\ ~prog.success =>
                       /\ res.err = ErrPath("GettingJavaVersionFailed", p)
                       /\ ~res.parsed
                 /\ prog.spawn = "ok" /\ prog.success
                       /\ ~HasVersionToken(prog.stderr) =>
                       res.err = Err("NoJavaVersionStringFound")
                 /\ prog.spawn = "ok" /\ prog.success
                       /\ HasVersionToken(prog.stderr) =>
                       /\ res.err = Ok
                       /\ res.parsed
                       /\ rec.path = p
                       /\ rec.version_string = extract_version(prog.stderr)
                       /\ res.op = "from_executable" => rec.os = HostOS

\* from_executable succeeded on a path that leads through the symbolic
\* link: the record holds that path, not its canonical form.
C8_Witness ==
    /\ res.op = "from_executable"
    /\ res.err = Ok
    /\ recs[res.slot].path = <<"/", "jdk", "lnk", "java">>

----------------------------------------------------------------------------
(* C11 *)

\* Two records differ in nothing but, at most, their versionString.
SameButVersion(a, b) ==
    [a EXCEPT !.version_string = b.version_string] = b

\* C11: a comparison says equal exactly when the two records have the same
\* os and the same path, whatever their versionStrings, and != says the
\* opposite; a clone is equal to its original, and records that are equal
\* are equal still after an update of either.
C11_EqualityIgnoresVersion ==
    /\ [](/\ res.op = "eq" =>
                res.ret = SameButVersion(recs[res.slot], recs[res.arg])
          /\ res.op = "ne" =>
                res.ret = ~SameButVersion(recs[res.slot], recs[res.arg])
          /\ res.op = "clone" => eq(recs[res.slot], recs[res.arg]))
    /\ [][/\ res'.op = "update"
           /\ recs["r1"] # NoRecord /\ recs["r2"] # NoRecord
           /\ eq(recs["r1"], recs["r2"])
           => eq(recs'["r1"], recs'["r2"])]_vars

\* A comparison of the two records has returned equal, and their
\* versionStrings differ.
C11_Witness ==
    /\ res.op = "eq"
    /\ res.ret
    /\ res.slot # res.arg
    /\ recs["r1"].version_string = <<"1", ".", "1">>
    /\ recs["r2"].version_string = <<"2", ".", "2", "_", "1">>

----------------------------------------------------------------------------
(* C12 *)

====
